---- MODULE Spec2Model ----
(***************************************************************************)
(* Model of src/log_decorator.py: the `log` decorator factory, the         *)
(* per-call context manager log_context, the invocation logger __Logger    *)
(* and the identifier resolution __get_func_param_by_name.                 *)
(*                                                                         *)
(* Python strings are TLA+ strings, so str.format, str.replace and         *)
(* str.split are computed character by character.  Python values are       *)
(* tagged records.  The backend sink (`logger` of .log_setup, a module     *)
(* that is not part of this file) is the sequence of calls made on it;     *)
(* each recorded emission also keeps the invocation logger that made it.   *)
(* The sink is taken to accept every call and return: the message, and the *)
(* optional `extra` data, which does not reach the message text and is not *)
(* recorded.  A sink that rejects `extra` (logging.Logger refuses the key  *)
(* 'args' that line 79 passes) would replace the error on the failure path *)
(* by its own.                                                             *)
(*                                                                         *)
(* Interpreter assumed: CPython 3.8 or later, where asyncio.CancelledError *)
(* derives from BaseException and not from Exception.                      *)
(***************************************************************************)
EXTENDS Integers, Sequences, FiniteSets, TLC

VARIABLES wrapped, calls, backend

vars == <<wrapped, calls, backend>>

(***************************************************************************)
(* Bounds of the model.                                                    *)
(***************************************************************************)
MaxNotes == 1
MaxSuspends == 1
MaxWrapped == 2
MaxCalls == 2

(***************************************************************************)
(* Python values.                                                          *)
(***************************************************************************)
NoneV == [t |-> "none"]
IntV(i) == [t |-> "int", i |-> i]
StrV(s) == [t |-> "str", s |-> s]
\* a dict, as its items in insertion order: a sequence of <<key, value>>
DictV(kv) == [t |-> "dict", kv |-> kv]
\* an instance of a plain class; kv is its __dict__ (what vars() returns)
ObjV(kv) == [t |-> "obj", kv |-> kv]
TupleV(xs) == [t |-> "tuple", xs |-> xs]
\* a reference to the __Logger instance built by call number id
LoggerV(id) == [t |-> "logger", id |-> id]

HasKey(kv, k) == \E i \in 1..Len(kv) : kv[i][1] = k
GetItem(kv, k) == kv[CHOOSE i \in 1..Len(kv) : kv[i][1] = k][2]
\* d[k] = v on a dict: overwrite in place, or insert at the end
SetItem(kv, k, v) ==
    IF HasKey(kv, k)
    THEN [i \in 1..Len(kv) |-> IF kv[i][1] = k THEN <<k, v>> ELSE kv[i]]
    ELSE Append(kv, <<k, v>>)

\* bool(v)
Truthy(v) ==
    CASE v.t = "none" -> FALSE
      [] v.t = "int" -> v.i # 0
      [] v.t = "str" -> v.s # ""
      [] v.t = "dict" -> Len(v.kv) > 0
      [] v.t = "tuple" -> Len(v.xs) > 0
      [] OTHER -> TRUE

\* `a or b`
PyOr(a, b) == IF Truthy(a) THEN a ELSE b

RECURSIVE PyRepr(_)
RECURSIVE ReprSeq(_)
RECURSIVE ReprItems(_)
\* repr(x1), repr(x2), ...
ReprSeq(xs) ==
    IF Len(xs) = 0 THEN ""
    ELSE IF Len(xs) = 1 THEN PyRepr(xs[1])
    ELSE PyRepr(xs[1]) \o ", " \o ReprSeq(Tail(xs))
\* 'k1': repr(v1), 'k2': repr(v2), ...
ReprItems(kv) ==
    IF Len(kv) = 0 THEN ""
    ELSE IF Len(kv) = 1 THEN "'" \o kv[1][1] \o "': " \o PyRepr(kv[1][2])
    ELSE "'" \o kv[1][1] \o "': " \o PyRepr(kv[1][2]) \o ", " \o ReprItems(Tail(kv))
\* repr(v)
PyRepr(v) ==
    CASE v.t = "none" -> "None"
      [] v.t = "int" -> ToString(v.i)
      [] v.t = "str" -> "'" \o v.s \o "'"
      [] v.t = "tuple" ->
            IF Len(v.xs) = 1 THEN "(" \o PyRepr(v.xs[1]) \o ",)"
            ELSE "(" \o ReprSeq(v.xs) \o ")"
      [] v.t = "dict" -> "{" \o ReprItems(v.kv) \o "}"
      [] v.t = "obj" -> "<Obj object>"
      [] OTHER -> "<__Logger object>"

\* str(v), which is what str.format applies to a field with no format spec
PyStr(v) == IF v.t = "str" THEN v.s ELSE PyRepr(v)

(***************************************************************************)
(* Python errors: class and constructor argument.                          *)
(***************************************************************************)
ErrV(cls, arg) == [cls |-> cls, arg |-> arg]
\* str(e): KeyError shows the repr of its key, the others their message
ErrStr(e) == IF e.cls = "KeyError" THEN "'" \o e.arg \o "'" ELSE e.arg
\* classes below BaseException that are not below Exception
BaseOnly == {"CancelledError"}
\* isinstance(e, Exception), the test of `except Exception`
IsException(e) == e.cls \notin BaseOnly
CancelledError == ErrV("CancelledError", "")

Ok(v) == [raised |-> FALSE, value |-> v]
Fail(e) == [raised |-> TRUE, error |-> e]

(***************************************************************************)
(* str methods.                                                            *)
(***************************************************************************)
RECURSIVE Find(_, _, _)
\* first position >= i (1-based) at which sub occurs in s, 0 when none
Find(s, sub, i) ==
    IF i + Len(sub) - 1 > Len(s) THEN 0
    ELSE IF SubSeq(s, i, i + Len(sub) - 1) = sub THEN i
    ELSE Find(s, sub, i + 1)

\* s.replace(old, new) left unapplied
ReplaceNoop(s, old, new) == s

RECURSIVE Replace(_, _, _)
\* s.replace(old, new): every occurrence, left to right
Replace(s, old, new) ==
    LET i == Find(s, old, 1)
    IN  IF i = 0 THEN s
        ELSE SubSeq(s, 1, i - 1) \o new
             \o Replace(SubSeq(s, i + Len(old), Len(s)), old, new)

RECURSIVE Split(_, _)
\* s.split(sep)
Split(s, sep) ==
    LET i == Find(s, sep, 1)
    IN  IF i = 0 THEN <<s>>
        ELSE <<SubSeq(s, 1, i - 1)>> \o Split(SubSeq(s, i + Len(sep), Len(s)), sep)

RECURSIVE Format(_, _)
\* p.format(**env) for a pattern of literal text and {name} fields; env
\* holds the str() of every field
Format(p, env) ==
    LET i == Find(p, "{", 1)
    IN  IF i = 0 THEN p
        ELSE LET j == Find(p, "}", i)
             IN  SubSeq(p, 1, i - 1) \o env[SubSeq(p, i + 1, j - 1)]
                 \o Format(SubSeq(p, j + 1, Len(p)), env)

\* list.index(x), 0-based; -1 stands for the ValueError it raises
ListIndex(xs, x) ==
    IF \E i \in 1..Len(xs) : xs[i] = x
    THEN (CHOOSE i \in 1..Len(xs) : xs[i] = x /\ \A j \in 1..(i - 1) : xs[j] # x) - 1
    ELSE -1

(***************************************************************************)
(* __get_func_param_by_name                                                *)
(***************************************************************************)
RECURSIVE Subitems(_, _)
\* the loop over subitems: a dict is indexed, anything else goes through
\* vars(), which needs an instance __dict__; a missing key is a KeyError
Subitems(identifier_value, subitems) ==
    IF Len(subitems) = 0 THEN Ok(identifier_value)
    ELSE LET subitem == Head(subitems)
         IN  IF identifier_value.t \in {"dict", "obj"}
             THEN IF HasKey(identifier_value.kv, subitem)
                  THEN Subitems(GetItem(identifier_value.kv, subitem), Tail(subitems))
                  ELSE Fail(ErrV("KeyError", subitem))
             ELSE Fail(ErrV("TypeError", "vars() argument must have __dict__ attribute"))

\* subitems resolved by dict indexing only
SubitemsDictOnly(identifier_value, subitems) ==
    IF Len(subitems) = 0 THEN Ok(identifier_value)
    ELSE IF identifier_value.t = "dict" /\ HasKey(identifier_value.kv, Head(subitems))
         THEN Ok(GetItem(identifier_value.kv, Head(subitems)))
         ELSE Fail(ErrV("TypeError", "object is not subscriptable"))

\* the root read from the positional arguments only, subitems from dicts only
get_func_param_by_name_positional(func, args, kwargs, param_name) ==
    LET items == Split(param_name, ".")
        identifier_index == ListIndex(func.params, items[1])
    IN  IF identifier_index = -1
        THEN Fail(ErrV("ValueError",
                       "Identifier " \o items[1] \o " not found in function arguments"))
        ELSE IF identifier_index < Len(args)
             THEN SubitemsDictOnly(args[identifier_index + 1], Tail(items))
             ELSE Fail(ErrV("IndexError", "tuple index out of range"))

\* a root that is no parameter resolved to None instead of raising
get_func_param_by_name_lenient(func, args, kwargs, param_name) ==
    LET items == Split(param_name, ".")
        identifier_index == ListIndex(func.params, items[1])
    IN  IF identifier_index = -1 THEN Ok(NoneV)
        ELSE Subitems(IF identifier_index < Len(args)
                      THEN args[identifier_index + 1]
                      ELSE IF HasKey(kwargs, items[1])
                           THEN GetItem(kwargs, items[1]) ELSE NoneV,
                      Tail(items))

get_func_param_by_name(func, args, kwargs, param_name) ==
    LET has_subitem == Find(param_name, ".", 1) # 0
        items == Split(param_name, ".")
        subitems == IF has_subitem THEN Tail(items) ELSE <<>>
        name == IF has_subitem THEN items[1] ELSE param_name
        \* list(inspect.signature(func).parameters.keys())
        func_args == func.params
        identifier_index == ListIndex(func_args, name)
    IN  IF identifier_index = -1
        THEN Fail(ErrV("ValueError",
                       "Identifier " \o name \o " not found in function arguments"))
        ELSE LET identifier_value ==
                     IF identifier_index < Len(args)
                     THEN args[identifier_index + 1]
                     \* except IndexError: kwargs.get(param_name)
                     ELSE IF HasKey(kwargs, name) THEN GetItem(kwargs, name) ELSE NoneV
             IN  Subitems(identifier_value, subitems)

(***************************************************************************)
(* class __Logger                                                          *)
(***************************************************************************)
\* one call on the backend sink: the method called and its message; `by`
\* keeps the id of the __Logger instance that made the call
Emit(method, message, by) == [method |-> method, message |-> message, by |-> by]

\* the backend sink: it appends the calls it receives, in order, and returns
Sink(log, emissions) == log \o emissions

\* __Logger.__init__; id is the identity of the new instance
Logger_init(id, message_pattern, kwargs) ==
    [id |-> id,
     _message |-> Format(message_pattern,
                    [action |-> PyStr(PyOr(kwargs.action, StrV(""))),
                     func_name |-> kwargs.func_name,
                     args |-> PyStr(kwargs.args),
                     identifier_name |-> PyStr(PyOr(kwargs.identifier_name, StrV(""))),
                     identifier_value |-> PyStr(PyOr(kwargs.identifier_value, StrV("")))]),
     _logger |-> [info |-> "info", debug |-> "debug", warning |-> "warning",
                  error |-> "error", exception |-> "exception"]]

\* every note sent to the backend's info method
Logger_log_info(self, type, message) ==
    Emit(self._logger["info"], self._message \o " | " \o message, self.id)

\* __Logger.__log
Logger_log(self, type, message) ==
    Emit(self._logger[type], self._message \o " | " \o message, self.id)

Logger_start(self) == Emit(self._logger["info"], "Starting " \o self._message, self.id)

Logger_finish(self) == Emit(self._logger["info"], "Finished " \o self._message, self.id)

\* the names of info, debug, warning, error and exception
NoteMethods == {"info", "debug", "warning", "error", "exception"}

\* __Logger.info / debug / warning / error / exception: each passes its own
\* name to __log
Logger_note(self, method, message) == Logger_log(self, method, message)

(***************************************************************************)
(* log_context, the wrappers and the decorator                             *)
(***************************************************************************)
\* log_context from its first line to the yield (what __enter__ runs):
\* either an error raised before the try block, or the logger, the kwargs
\* yielded to the wrapper and the start emission
log_context_enter(w, id, args, kwargs) ==
    LET has_identifier == Truthy(w.identifier)
        resolved == IF has_identifier
                    THEN get_func_param_by_name(w.func, args, kwargs, w.identifier.s)
                    ELSE Ok(NoneV)
    IN  IF resolved.raised THEN Fail(resolved.error)
        ELSE LET pattern0 == IF has_identifier
                             THEN "{func_name} with {identifier_name}: {identifier_value}"
                             ELSE "{func_name} with args: {args}"
                 pattern == IF Truthy(w.action)
                            THEN Replace(pattern0, "{func_name}", "{action}")
                            ELSE pattern0
                 logger == Logger_init(id, pattern,
                              [action |-> w.action,
                               func_name |-> w.func.name,
                               args |-> TupleV(args),
                               identifier_name |-> w.identifier,
                               identifier_value |-> resolved.value])
             IN  [raised |-> FALSE,
                  identifier_value |-> resolved.value,
                  logger |-> logger,
                  kwargs |-> IF w.inject
                             THEN SetItem(kwargs, "__logger", LoggerV(id))
                             ELSE kwargs,
                  emits |-> <<Logger_start(logger)>>]

\* finish logged on every exit, also after an error
log_context_exit_finally(logger, thrown) ==
    IF thrown = NoneV
    THEN [emits |-> <<Logger_finish(logger)>>, raises |-> NoneV]
    ELSE [emits |-> <<Logger_note(logger, "exception", ErrStr(thrown)),
                      Logger_finish(logger)>>,
          raises |-> thrown]

\* the error logged and replaced by a new one carrying its text
log_context_exit_wrapped(logger, thrown) ==
    IF thrown = NoneV
    THEN [emits |-> <<Logger_finish(logger)>>, raises |-> NoneV]
    ELSE [emits |-> <<Logger_note(logger, "exception", ErrStr(thrown))>>,
          raises |-> ErrV("Exception", ErrStr(thrown))]

\* log_context after the yield (what __exit__ runs); thrown is the error
\* the with block ended in, or NoneV.  The result is what is emitted and
\* what the generator raises.
log_context_exit(logger, thrown) ==
    IF thrown = NoneV
    THEN [emits |-> <<Logger_finish(logger)>>, raises |-> NoneV]
    ELSE IF IsException(thrown)
         THEN [emits |-> <<Logger_note(logger, "exception", ErrStr(thrown))>>,
               raises |-> thrown]
         \* not matched by `except Exception`: leaves the generator as thrown
         ELSE [emits |-> <<>>, raises |-> thrown]

NoOutcome == [kind |-> "none"]
Returned(v) == [kind |-> "return", value |-> v]
Raised(e) == [kind |-> "raise", error |-> e]

\* the with statement around the target's call: an error raised by the
\* context's exit leaves the wrapper; an error the exit does not raise
\* again is suppressed and the wrapper falls off its end
WithReturn(target_outcome, exit) ==
    IF exit.raises # NoneV THEN Raised(exit.raises)
    ELSE IF target_outcome.kind = "return" THEN Returned(target_outcome.value)
    ELSE Returned(NoneV)

wrapper_sync(target_outcome, exit) == WithReturn(target_outcome, exit)

\* the awaited value dropped: `await func(...)` with no return
wrapper_async_noreturn(target_outcome, exit) ==
    IF exit.raises # NoneV THEN Raised(exit.raises) ELSE Returned(NoneV)

wrapper_async(target_outcome, exit) == WithReturn(target_outcome, exit)

\* log(action, identifier, inject)(func)
decorator(func, action, identifier, inject) ==
    [func |-> func, action |-> action, identifier |-> identifier, inject |-> inject,
     wrapper |-> IF func.async THEN "wrapper_async" ELSE "wrapper_sync"]

(***************************************************************************)
(* The functions that get decorated, the decorator settings and the calls  *)
(* made.  Every function is declared  def name(<params>, **kwargs), so     *)
(* that it accepts the injected '__logger' keyword.                        *)
(***************************************************************************)
Func(name, positional, async) ==
    [name |-> name, params |-> positional \o <<"kwargs">>, async |-> async]

Funcs == {Func("f", <<"a", "b">>, FALSE), Func("af", <<"a", "b">>, TRUE),
          Func("g", <<"obj">>, FALSE), Func("ag", <<"obj">>, TRUE)}

ActionChoices == {NoneV, StrV("act")}
IdentifierChoices == {NoneV, StrV("a"), StrV("b"), StrV("obj"), StrV("obj.name"), StrV("missing")}

ParamValues(p) ==
    CASE p = "a" -> {IntV(1), IntV(0), StrV("")}
      [] p = "b" -> {IntV(2)}
      [] OTHER -> {DictV(<< <<"name", StrV("x")>> >>), ObjV(<< <<"name", StrV("x")>> >>),
                   ObjV(<< <<"name", StrV("y")>> >>), DictV(<< <<"name", IntV(0)>> >>),
                   DictV(<< <<"other", IntV(1)>> >>), IntV(5)}

AllValues == UNION {ParamValues(p) : p \in {"a", "b", "obj"}}

\* the declared parameters a call binds (all but **kwargs)
Positional(func) == SubSeq(func.params, 1, Len(func.params) - 1)

\* the values a call binds to the parameters, in declaration order
Bindings(func) ==
    {b \in [1..Len(Positional(func)) -> AllValues] :
        \A i \in 1..Len(Positional(func)) : b[i] \in ParamValues(Positional(func)[i])}

\* the call that passes the first k values of binding positionally and the
\* others by keyword, last parameter first:  f(1, 2), f(1, b=2), f(b=2, a=1)
CallShape(func, binding, k) ==
    LET n == Len(binding)
    IN  [args |-> SubSeq(binding, 1, k),
         kwargs |-> [i \in 1..(n - k) |->
                        <<Positional(func)[n + 1 - i], binding[n + 1 - i]>>],
         binding |-> binding]

Inputs(func) ==
    {CallShape(func, b, k) : b \in Bindings(func), k \in 0..Len(Positional(func))}

ReturnValues == {IntV(7), StrV("ok")}
TargetErrors == {ErrV("RuntimeError", "boom")}
NoteTexts == {"hello"}

(***************************************************************************)
(* State.                                                                  *)
(*   wrapped  the decorated functions, in decoration order                 *)
(*   calls    the calls of decorated functions, in call order              *)
(*   backend  the calls made on the backend sink, in order                 *)
(***************************************************************************)
Init ==
    /\ wrapped = <<>>
    /\ calls = <<>>
    /\ backend = <<>>

Cfg(c) == wrapped[calls[c].w]

\* @log(action, identifier, inject) applied to func
Decorate(func, action, identifier, inject) ==
    /\ Len(wrapped) < MaxWrapped
    /\ wrapped' = Append(wrapped, decorator(func, action, identifier, inject))
    /\ UNCHANGED <<calls, backend>>

\* the wrapped function called: log_context runs up to its yield and, when
\* it raised nothing, the target is invoked with the yielded kwargs
Call(wi, in) ==
    /\ Len(calls) < MaxCalls
    /\ wi \in DOMAIN wrapped
    /\ LET id == Len(calls) + 1
           enter == log_context_enter(wrapped[wi], id, in.args, in.kwargs)
           base == [w |-> wi, args |-> in.args, kwargs |-> in.kwargs,
                    binding |-> in.binding, notes |-> <<>>, suspends |-> 0,
                    target_outcome |-> NoOutcome]
       IN  IF enter.raised
           THEN /\ calls' = Append(calls,
                       base @@ [pc |-> "raised", invoked |-> FALSE,
                                identifier_value |-> NoneV, logger |-> NoneV,
                                target_kwargs |-> <<>>,
                                outcome |-> Raised(enter.error)])
                /\ backend' = backend
           ELSE /\ calls' = Append(calls,
                       base @@ [pc |-> "running", invoked |-> TRUE,
                                identifier_value |-> enter.identifier_value,
                                logger |-> enter.logger,
                                target_kwargs |-> enter.kwargs,
                                outcome |-> NoOutcome])
                /\ backend' = Sink(backend, enter.emits)
    /\ UNCHANGED wrapped

\* the target body calls kwargs['__logger'].<method>(message)
Note(c, method, message) ==
    /\ c \in DOMAIN calls
    /\ calls[c].pc = "running"
    /\ HasKey(calls[c].target_kwargs, "__logger")
    /\ Len(calls[c].notes) < MaxNotes
    /\ LET self == calls[GetItem(calls[c].target_kwargs, "__logger").id].logger
       IN  backend' = Sink(backend, <<Logger_note(self, method, message)>>)
    /\ calls' = [calls EXCEPT ![c].notes =
                    Append(@, [method |-> method, message |-> message])]
    /\ UNCHANGED wrapped

\* an asynchronous target suspends at an await of its own
Await(c) ==
    /\ c \in DOMAIN calls
    /\ calls[c].pc = "running"
    /\ Cfg(c).func.async
    /\ calls[c].suspends < MaxSuspends
    /\ calls' = [calls EXCEPT ![c].pc = "suspended", ![c].suspends = @ + 1]
    /\ UNCHANGED <<wrapped, backend>>

\* the awaited thing resolves and the target runs on
Resume(c) ==
    /\ c \in DOMAIN calls
    /\ calls[c].pc = "suspended"
    /\ calls' = [calls EXCEPT ![c].pc = "running"]
    /\ UNCHANGED <<wrapped, backend>>

\* the target ends with target_outcome: the with block is left through
\* log_context's exit and the wrapper returns or raises
Leave(c, target_outcome) ==
    LET exit == log_context_exit(calls[c].logger,
                    IF target_outcome.kind = "raise"
                    THEN target_outcome.error ELSE NoneV)
        outcome == IF Cfg(c).wrapper = "wrapper_async"
                   THEN wrapper_async(target_outcome, exit)
                   ELSE wrapper_sync(target_outcome, exit)
    IN  /\ calls' = [calls EXCEPT
                        ![c].pc = IF outcome.kind = "return" THEN "returned" ELSE "raised",
                        ![c].target_outcome = target_outcome,
                        ![c].outcome = outcome]
        /\ backend' = Sink(backend, exit.emits)
        /\ UNCHANGED wrapped

\* the target returns value
Return(c, value) ==
    /\ c \in DOMAIN calls
    /\ calls[c].pc = "running"
    /\ Leave(c, Returned(value))

\* the target raises error
Raise(c, error) ==
    /\ c \in DOMAIN calls
    /\ calls[c].pc = "running"
    /\ Leave(c, Raised(error))

\* the task running a suspended target is cancelled: CancelledError is
\* raised at the target's await and leaves the target
Cancel(c) ==
    /\ c \in DOMAIN calls
    /\ calls[c].pc = "suspended"
    /\ Leave(c, Raised(CancelledError))

CallIds == 1..MaxCalls

(***************************************************************************)
(* Spec: one decorated function, any settings, called once with any        *)
(* inputs.                                                                 *)
(***************************************************************************)
DecorateOne ==
    /\ wrapped = <<>>
    /\ \E func \in Funcs, action \in ActionChoices,
          identifier \in IdentifierChoices, inject \in BOOLEAN :
            Decorate(func, action, identifier, inject)

CallOne ==
    /\ calls = <<>>
    /\ \E wi \in DOMAIN wrapped : \E in \in Inputs(wrapped[wi].func) : Call(wi, in)

NoteAny == \E c \in CallIds, method \in NoteMethods, message \in NoteTexts :
                Note(c, method, message)
AwaitAny == \E c \in CallIds : Await(c)
ResumeAny == \E c \in CallIds : Resume(c)
CancelAny == \E c \in CallIds : Cancel(c)
ReturnAny == \E c \in CallIds, value \in ReturnValues : Return(c, value)
RaiseAny == \E c \in CallIds, error \in TargetErrors : Raise(c, error)

Next ==
    \/ DecorateOne
    \/ CallOne
    \/ NoteAny
    \/ AwaitAny
    \/ ResumeAny
    \/ CancelAny
    \/ ReturnAny
    \/ RaiseAny

Spec == Init /\ [][Next]_vars

(***************************************************************************)
(* SpecConc: up to MaxWrapped decorated asynchronous functions and up to   *)
(* MaxCalls calls of them in flight at once, interleaved at their awaits.  *)
(***************************************************************************)
ConcDecorations ==
    {<<Func("ag", <<"obj">>, TRUE), NoneV, StrV("obj.name"), TRUE>>,
     <<Func("af", <<"a", "b">>, TRUE), StrV("act"), NoneV, TRUE>>,
     <<Func("af", <<"a", "b">>, TRUE), NoneV, StrV("a"), FALSE>>}

\* positional calls whose identifier resolves to a non-empty value
ConcInputs(func) ==
    {in \in Inputs(func) :
        /\ in.kwargs = <<>>
        /\ \A i \in 1..Len(in.binding) :
                LET v == in.binding[i]
                IN  IF v.t \in {"dict", "obj"}
                    THEN HasKey(v.kv, "name") /\ Truthy(GetItem(v.kv, "name"))
                    ELSE Truthy(v) /\ v # IntV(5)}

DecorateConc == \E d \in ConcDecorations : Decorate(d[1], d[2], d[3], d[4])

CallConc == \E wi \in DOMAIN wrapped : \E in \in ConcInputs(wrapped[wi].func) : Call(wi, in)

NoteConc == \E c \in CallIds, message \in NoteTexts : Note(c, "info", message)

ReturnConc == \E c \in CallIds : Return(c, IntV(7))

NextConc ==
    \/ DecorateConc
    \/ CallConc
    \/ NoteConc
    \/ AwaitAny
    \/ ResumeAny
    \/ CancelAny
    \/ ReturnConc
    \/ RaiseAny

SpecConc == Init /\ [][NextConc]_vars

(***************************************************************************)
(* Vocabulary of the properties.                                           *)
(***************************************************************************)
\* the backend calls made by the invocation logger of call c, in order
Emissions(c) == SelectSeq(backend, LAMBDA e : e.by = c)

\* call c got as far as building its invocation logger
Started(c) == calls[c].logger # NoneV
Msg(c) == calls[c].logger._message

StartOf(c) == [method |-> "info", message |-> "Starting " \o Msg(c), by |-> c]
FinishOf(c) == [method |-> "info", message |-> "Finished " \o Msg(c), by |-> c]
ExceptionOf(c, e) ==
    [method |-> "exception", message |-> Msg(c) \o " | " \o ErrStr(e), by |-> c]
\* what the notes made by the target of call c should have sent
NotesOf(c) ==
    [i \in 1..Len(calls[c].notes) |->
        [method |-> calls[c].notes[i].method,
         message |-> Msg(c) \o " | " \o calls[c].notes[i].message,
         by |-> c]]

Unset(v) == ~Truthy(v)
Sync(c) == Cfg(c).wrapper = "wrapper_sync"
Async(c) == Cfg(c).wrapper = "wrapper_async"
TargetReturned(c) == calls[c].target_outcome.kind = "return"
TargetRaised(c) == calls[c].target_outcome.kind = "raise"
Done(c) == calls[c].pc \in {"returned", "raised"}
\* the root segment of the configured identifier of call c
Root(c) == Split(Cfg(c).identifier.s, ".")[1]
IsParam(func, name) == \E i \in 1..Len(func.params) : func.params[i] = name
\* the value call c binds to parameter name, however it was passed
Bound(c, name) ==
    calls[c].binding[CHOOSE i \in 1..Len(calls[c].binding) :
                        Positional(Cfg(c).func)[i] = name]

C3_CancellationLogged ==
    \A c \in DOMAIN calls :
        /\ (Async(c) /\ calls[c].target_outcome = Raised(CancelledError)) =>
                /\ Emissions(c) = <<StartOf(c)>> \o NotesOf(c)
                        \o <<ExceptionOf(c, CancelledError)>>
                /\ calls[c].outcome = Raised(CancelledError)
        /\ (Started(c) /\ Done(c)) =>
                /\ Len(Emissions(c)) = Len(calls[c].notes) + 2
                /\ \/ Emissions(c)[Len(Emissions(c))] = FinishOf(c)
                   \/ Emissions(c)[Len(Emissions(c))].method = "exception"

(***************************************************************************)
(* C4 as written: with action set and identifier unset the resolved        *)
(* message is the action text alone, so the start and finish emissions are *)
(* 'Starting <action>' and 'Finished <action>'.                            *)
(***************************************************************************)
C4_MessageIsAction ==
    \A c \in DOMAIN calls :
        (Started(c) /\ Truthy(Cfg(c).action) /\ Unset(Cfg(c).identifier)) =>
            /\ Msg(c) = Cfg(c).action.s
            /\ Emissions(c)[1].message = "Starting " \o Cfg(c).action.s
            /\ TargetReturned(c) =>
                Emissions(c)[Len(Emissions(c))].message = "Finished " \o Cfg(c).action.s

(***************************************************************************)
(* C4 amended: with action set and identifier unset the action text takes  *)
(* the place of the function name and the argument list stays: the message *)
(* is '<action> with args: <args>', and the start and finish emissions are *)
(* 'Starting <action> with args: <args>' and 'Finished <action> with args: *)
(* <args>', <args> being the string form of the positional argument tuple. *)
(***************************************************************************)
C4_MessageIsActionWithArgs ==
    \A c \in DOMAIN calls :
        (Started(c) /\ Truthy(Cfg(c).action) /\ Unset(Cfg(c).identifier)) =>
            LET text == Cfg(c).action.s \o " with args: " \o PyStr(TupleV(calls[c].args))
            IN  /\ Msg(c) = text
                /\ Emissions(c)[1].message = "Starting " \o text
                /\ TargetReturned(c) =>
                    Emissions(c)[Len(Emissions(c))].message = "Finished " \o text

C4_Witness ==
    \E c \in DOMAIN calls :
        /\ Started(c) /\ Truthy(Cfg(c).action) /\ Unset(Cfg(c).identifier)
        /\ TargetReturned(c)
        /\ Emissions(c)[1].message = "Starting act with args: (1, 2)"
        /\ Emissions(c)[Len(Emissions(c))].message = "Finished act with args: (1, 2)"

(***************************************************************************)
(* C5 as written: in the other three configurations the message follows    *)
(* the pattern table for every resolved identifier value v, truthy or      *)
(* falsy, with <v> the string form of v.                                   *)
(***************************************************************************)
C5_PatternTable ==
    \A c \in DOMAIN calls :
        Started(c) =>
            LET cfg == Cfg(c)
                v == PyStr(calls[c].identifier_value)
            IN  /\ (Unset(cfg.action) /\ Unset(cfg.identifier)) =>
                    Msg(c) = cfg.func.name \o " with args: " \o PyStr(TupleV(calls[c].args))
                /\ (Unset(cfg.action) /\ Truthy(cfg.identifier)) =>
                    Msg(c) = cfg.func.name \o " with " \o cfg.identifier.s \o ": " \o v
                /\ (Truthy(cfg.action) /\ Truthy(cfg.identifier)) =>
                    Msg(c) = cfg.action.s \o " with " \o cfg.identifier.s \o ": " \o v

(***************************************************************************)
(* C6: the resolved identifier value is the value bound to the root        *)
(* parameter, whether it was passed positionally or by keyword; and with a *)
(* path '<root>.name' it is the name entry of that value, whether the      *)
(* value is a mapping with key name or a plain object with field name.     *)
(***************************************************************************)
C6_ResolutionByBinding ==
    \A c \in DOMAIN calls :
        (Truthy(Cfg(c).identifier) /\ IsParam(Cfg(c).func, Root(c))) =>
            LET path == Split(Cfg(c).identifier.s, ".")
                root == Bound(c, Root(c))
            IN  /\ Len(path) = 1 =>
                    /\ Started(c)
                    /\ calls[c].identifier_value = root
                /\ (Len(path) = 2 /\ root.t \in {"dict", "obj"} /\ HasKey(root.kv, path[2])) =>
                    /\ Started(c)
                    /\ calls[c].identifier_value = GetItem(root.kv, path[2])

C6_Witness ==
    \E c \in DOMAIN calls :
        /\ Cfg(c).identifier = StrV("a")
        /\ calls[c].args = <<>>
        /\ calls[c].kwargs = << <<"b", IntV(2)>>, <<"a", IntV(1)>> >>
        /\ Started(c)
        /\ calls[c].identifier_value = IntV(1)

(***************************************************************************)
(* C7: when the root segment of the identifier is no parameter of the      *)
(* target, the decoration has succeeded and every call raises a ValueError *)
(* naming that segment before anything else happens: the target is not     *)
(* invoked and nothing is emitted.                                         *)
(***************************************************************************)
C7_MissingRootRaises ==
    \A c \in DOMAIN calls :
        (Truthy(Cfg(c).identifier) /\ ~IsParam(Cfg(c).func, Root(c))) =>
            /\ calls[c].pc = "raised"
            /\ ~calls[c].invoked
            /\ calls[c].target_outcome = NoOutcome
            /\ calls[c].outcome.kind = "raise"
            /\ calls[c].outcome.error.cls = "ValueError"
            /\ Find(calls[c].outcome.error.arg, Root(c), 1) # 0
            /\ Emissions(c) = <<>>

C7_Witness ==
    \E c \in DOMAIN calls :
        /\ Cfg(c).identifier = StrV("missing")
        /\ calls[c].pc = "raised"
        /\ ~calls[c].invoked
        /\ calls[c].outcome =
              Raised(ErrV("ValueError", "Identifier missing not found in function arguments"))

(***************************************************************************)
(* C8: with inject on, the target receives '__logger' bound to the         *)
(* invocation logger of its own call, and every note it makes with message *)
(* m is one backend emission on the method of the same name, with message  *)
(* '<resolved message> | m', after the call's start emission and before    *)
(* its finish or exception emission.                                       *)
(***************************************************************************)
C8_InjectedLoggerNotes ==
    \A c \in DOMAIN calls :
        (Cfg(c).inject /\ calls[c].invoked) =>
            LET n == Len(calls[c].notes)
                em == Emissions(c)
            IN  /\ HasKey(calls[c].target_kwargs, "__logger")
                /\ GetItem(calls[c].target_kwargs, "__logger") = LoggerV(c)
                /\ calls[c].logger.id = c
                /\ Len(em) >= n + 1
                /\ em[1] = StartOf(c)
                /\ SubSeq(em, 2, n + 1) = NotesOf(c)
                /\ Len(em) <= n + 2
                /\ Len(em) = n + 2 =>
                    /\ Done(c)
                    /\ \/ em[n + 2] = FinishOf(c)
                       \/ /\ TargetRaised(c)
                          /\ em[n + 2] = ExceptionOf(c, calls[c].target_outcome.error)

C8_Witness ==
    \E c \in DOMAIN calls :
        /\ Cfg(c).inject
        /\ calls[c].notes = <<[method |-> "warning", message |-> "hello"]>>
        /\ TargetReturned(c)
        /\ Len(Emissions(c)) = 3
        /\ Emissions(c)[2].method = "warning"
        /\ Emissions(c)[2].message = Msg(c) \o " | hello"

(***************************************************************************)
(* C9: for an asynchronous target the start emission is made before the    *)
(* target first suspends; while the target runs or is suspended no finish  *)
(* emission has been made and the wrapper has produced nothing; the finish *)
(* emission is made only once the target has returned, and the awaited     *)
(* wrapper then yields exactly the target's result.                        *)
(***************************************************************************)
C9_AsyncLifecycle ==
    \A c \in DOMAIN calls :
        (Async(c) /\ calls[c].invoked) =>
            /\ Len(Emissions(c)) >= 1
            /\ Emissions(c)[1] = StartOf(c)
            /\ calls[c].pc \in {"running", "suspended"} =>
                /\ calls[c].outcome = NoOutcome
                /\ \A i \in 1..Len(Emissions(c)) : Emissions(c)[i] # FinishOf(c)
            /\ (\E i \in 1..Len(Emissions(c)) : Emissions(c)[i] = FinishOf(c)) =>
                /\ TargetReturned(c)
                /\ Emissions(c)[Len(Emissions(c))] = FinishOf(c)
            /\ TargetReturned(c) =>
                /\ calls[c].pc = "returned"
                /\ calls[c].outcome = Returned(calls[c].target_outcome.value)
                /\ Emissions(c)[Len(Emissions(c))] = FinishOf(c)

C9_Witness ==
    \E c \in DOMAIN calls :
        /\ Async(c)
        /\ calls[c].suspends = 1
        /\ calls[c].pc = "returned"
        /\ calls[c].outcome = Returned(IntV(7))
        /\ Emissions(c)[Len(Emissions(c))] = FinishOf(c)

(***************************************************************************)
(* C10 as written: when two or more calls are interleaved, each has its    *)
(* own invocation logger, every emission of a call carries that call's own *)
(* message, and the call's emissions are its start, then its notes, then   *)
(* exactly one of finish or exception once the call has ended.             *)
(***************************************************************************)
OwnLogger(c) ==
    /\ calls[c].logger.id = c
    /\ HasKey(calls[c].target_kwargs, "__logger") =>
            GetItem(calls[c].target_kwargs, "__logger") = LoggerV(c)

OwnMessages(c) ==
    LET n == Len(calls[c].notes)
        em == Emissions(c)
    IN  /\ Len(em) >= n + 1
        /\ em[1] = StartOf(c)
        /\ SubSeq(em, 2, n + 1) = NotesOf(c)
        /\ Len(em) <= n + 2
        /\ Len(em) = n + 2 =>
            /\ Done(c)
            /\ \/ TargetReturned(c) /\ em[n + 2] = FinishOf(c)
               \/ /\ TargetRaised(c)
                  /\ em[n + 2] = ExceptionOf(c, calls[c].target_outcome.error)

C10_NonInterference ==
    Len(calls) >= 2 =>
        \A c \in DOMAIN calls :
            Started(c) =>
                /\ OwnLogger(c)
                /\ OwnMessages(c)
                /\ Done(c) => Len(Emissions(c)) = Len(calls[c].notes) + 2

(***************************************************************************)
(* What does hold of interleaved calls: own logger, own messages, start    *)
(* then notes then at most one of finish or exception; and exactly one     *)
(* unless the call was ended by a cancellation (see C3).                   *)
(***************************************************************************)
ConcOwnEmissions ==
    \A c \in DOMAIN calls :
        Started(c) =>
            /\ OwnLogger(c)
            /\ OwnMessages(c)
            /\ (Done(c) /\ calls[c].target_outcome # Raised(CancelledError)) =>
                    Len(Emissions(c)) = Len(calls[c].notes) + 2
            /\ \A i \in 1..Len(backend) : backend[i].by \in DOMAIN calls
====
